---- MODULE Spec2Model ----
(***************************************************************************)
(* Three-point pharmacophore fingerprints of kripo                         *)
(* (kripo/fingerprint/threepoint.py): fuzzy_offsets and from_pharmacophore.*)
(*                                                                         *)
(* Lengths are integers in tenths of an Angstrom (fp_width 0.8 is 8), a    *)
(* string is the sequence of its code points (chr and ord are then the     *)
(* identity on code points), and sequences are 1-based where Python's are  *)
(* 0-based.                                                                *)
(***************************************************************************)
EXTENDS Integers, Sequences, FiniteSets, TLC

VARIABLES
    features,          \* pharmacophore.features, in the order the caller holds them
    subs,              \* argument subs
    fuzzy_factor,      \* argument fuzzy_factor
    bit_info,          \* which keys the loaded BIT_INFO holds
    pc,                \* position in from_pharmacophore
    ordered_features,  \* local ordered_features
    bits,              \* local bits
    offsets,           \* local offsets
    abc,               \* loop variables a, b, c of the triple loop (1-based)
    looked,            \* history: every BIT_INFO[...] evaluated, as <<place, key>>
    result,            \* what the call returned (NoResult until it returns)
    prev               \* the caller's record of the call before this one

vars == <<features, subs, fuzzy_factor, bit_info, pc, ordered_features, bits,
          offsets, abc, looked, result, prev>>

-----------------------------------------------------------------------------
(* Bounds and input domains *)

MaxFeatures == 3

MaxFuzzy == 1

\* fuzzy_factor values tried: an unsupported one, the two special ones, 0..MaxFuzzy
FuzzyFactors == (0 - 3) .. MaxFuzzy

\* The features a pharmacophore is drawn from (with repetition): positions on
\* a line, chosen so that the binned distances are 0, 1, 2, 18, 19 and 20
\* (both ends of the bin table and its inside), with two tags at the same
\* binned distance from a third and two features of one kind.
FeaturePool ==
    { [kind |-> "HACC", pos |-> 0],
      [kind |-> "LIPO", pos |-> 8],
      [kind |-> "AROM", pos |-> 16],
      [kind |-> "LIPO", pos |-> 160] }

NoResult == [status |-> "none"]

NoPrev == [rel |-> "none"]

-----------------------------------------------------------------------------
(* Module constants of threepoint.py *)

FpWidth == 8

FpMultiplier == 1

MaxBins == 20

MaxDistance == 230

RECURSIVE CalcBinsFrom(_, _, _)
CalcBinsFrom(acc, last, width) ==
    LET w    == width * FpMultiplier
        nxt  == last + w
    IN  IF Len(acc) >= MaxBins \/ nxt > MaxDistance
        THEN acc
        ELSE CalcBinsFrom(Append(acc, nxt), nxt, w)

\* calc_bins(fp_width=0.8, fp_multiplier=1, max_bins=20, max_distance=23)
BINS == CalcBinsFrom(<<FpWidth>>, FpWidth, FpWidth)

nr_bins == Len(BINS)

\* bin_distance: the number of thresholds <= distance
bin_distance(distance, bins) ==
    Cardinality({i \in DOMAIN bins : bins[i] <= distance})

FEATURE2BIT ==
    [LIPO |-> "H", POSC |-> "P", NEGC |-> "N", HDON |-> "O", HACC |-> "A", AROM |-> "R"]

\* ord() of the tag characters
Ord == [H |-> 72, P |-> 80, N |-> 78, O |-> 79, A |-> 65, R |-> 82]

\* code point of 'a'
CharA == 97

\* Feature.distance
Distance(f, g) == IF f.pos >= g.pos THEN f.pos - g.pos ELSE g.pos - f.pos

calculate_distance_matrix(of) ==
    [i \in DOMAIN of |-> [j \in DOMAIN of |-> Distance(of[i], of[j])]]

-----------------------------------------------------------------------------
(* BIT_INFO: the dictionary loaded from the resource file.  bit_info.bins is *)
(* the number of bin letters the file was generated for and bit_info.tags    *)
(* the tag letters it knows: a key is present when all its letters are.      *)

\* the tag letters are upper case, the bin letters start at 'a'
IsTagCode(c) == c < CharA

KeyPresent(key) ==
    \A n \in DOMAIN key :
        IF IsTagCode(key[n])
        THEN \E t \in bit_info.tags : Ord[t] = key[n]
        ELSE key[n] - CharA < bit_info.bins

\* The bit positions of the resource file are not part of the sources; any
\* numbering that gives distinct keys distinct positions stands for them:
\* here the letters of a key read as digits in base 32 (A..R are 1..18,
\* a..z are 1..26).
RECURSIVE KeyNumber(_, _)
KeyNumber(key, n) ==
    IF n = 0 THEN 0 ELSE KeyNumber(key, n - 1) * 32 + (key[n] % 32)

\* BIT_INFO[key], for a key that is present
BitIndex(key) == KeyNumber(key, Len(key))

-----------------------------------------------------------------------------
(* sorted() and list.sort() are stable sorts: the place of element i is   *)
(* one more than the number of elements with a smaller key or with an      *)
(* equal key and an earlier place.                                         *)

\* the features left in the order they were given
FeatureLessNever(f, g) == FALSE

\* line 95: key=lambda f: FEATURE2BIT[f.kind]
FeatureLess(f, g) == Ord[FEATURE2BIT[f.kind]] < Ord[FEATURE2BIT[g.kind]]

\* line 95: sorted() is stable: features of equal key keep their order
SortFeatures(fs) ==
    LET rank == [i \in DOMAIN fs |->
                    Cardinality({j \in DOMAIN fs :
                        \/ FeatureLess(fs[j], fs[i])
                        \/ (~FeatureLess(fs[i], fs[j]) /\ j < i)}) + 1]
    IN  [r \in DOMAIN fs |-> fs[CHOOSE i \in DOMAIN fs : rank[i] = r]]

-----------------------------------------------------------------------------
(* Sequence helpers for the loops *)

RECURSIVE Flatten(_)
Flatten(ss) == IF ss = <<>> THEN <<>> ELSE Head(ss) \o Flatten(Tail(ss))

\* list(range(lo, hi + 1))
Range(lo, hi) == [n \in 1 .. (hi - lo + 1) |-> lo + n - 1]

SeqToSet(s) == {s[n] : n \in DOMAIN s}

-----------------------------------------------------------------------------
(* fuzzy_offsets *)

LegacyOffsets ==
    << <<1, 2, 1>>, <<1, 1, -1>>, <<1, -1, -1>>, <<1, 0, -1>>,
       <<0, -1, -1>>, <<-1, -1, -1>>, <<1, 2, 0>> >>

AxisOffsets ==
    << <<0, 0, 0>>, <<-1, 0, 0>>, <<1, 0, 0>>, <<0, -1, 0>>,
       <<0, 1, 0>>, <<0, 0, -1>>, <<0, 0, 1>> >>

\* the loops with range(-f, f): the upper end left out
CubeOffsetsExclusive(f) ==
    LET r == Range(0 - f, f - 1)
    IN  Flatten([x \in DOMAIN r |->
            Flatten([y \in DOMAIN r |->
                [z \in DOMAIN r |-> <<r[x], r[y], r[z]>>]])])

\* lines 67-71: the three nested loops
CubeOffsets(f) ==
    LET r == Range(0 - f, f)
    IN  Flatten([x \in DOMAIN r |->
            Flatten([y \in DOMAIN r |->
                [z \in DOMAIN r |-> <<r[x], r[y], r[z]>>]])])

\* the generator without its else branch: it yields nothing and raises nothing
fuzzy_offsets_never_raises(f) == FALSE

\* TRUE when the generator raises ValueError (lines 80-81)
fuzzy_offsets_raises(f) == ~(f >= 0) /\ ~(f = -1) /\ ~(f = -2)

\* the generator with the two special values exchanged
fuzzy_offsets_swapped(f) ==
    IF f >= 0 THEN CubeOffsets(f)
    ELSE IF f = -1 THEN AxisOffsets
    ELSE IF f = -2 THEN LegacyOffsets
    ELSE <<>>

\* what the generator yields, in order; nothing is yielded before it raises
fuzzy_offsets(f) ==
    IF f >= 0 THEN CubeOffsets(f)
    ELSE IF f = -1 THEN LegacyOffsets
    ELSE IF f = -2 THEN AxisOffsets
    ELSE <<>>

-----------------------------------------------------------------------------
(* The lookups of from_pharmacophore, in the order the code makes them.     *)
(* A lookup is <<place, key>>.                                              *)

Tag(f) == FEATURE2BIT[f.kind]

\* the loop of line 104 stopping one feature early
SingleLookupsButLast(of) ==
    [n \in 1 .. (Len(of) - 1) |-> <<"single", <<Ord[Tag(of[n])]>> >>]

\* lines 104-107
SingleLookups(of) ==
    [n \in DOMAIN of |-> <<"single", <<Ord[Tag(of[n])]>> >>]

\* lines 110-112
PairFuzzyFactor(f) == IF f < 0 THEN 1 ELSE f

\* the pair bound written like the triple bound
PairBinKeptStrict(bin) == ~(nr_bins <= bin \/ bin < 0)

\* line 126, negated: the perturbed pair bin is looked up
PairBinKept(bin) == ~(nr_bins < bin \/ bin < 0)

\* lines 115-131, for one pair a < b
PairLookupsOf(of, a, b, f) ==
    LET dist_matrix == calculate_distance_matrix(of)
        bin_id == bin_distance(dist_matrix[a][b], BINS)
        ids    == <<Tag(of[a]), Tag(of[b])>>
        r      == Range(0 - PairFuzzyFactor(f), PairFuzzyFactor(f))
        kept   == SelectSeq(r, LAMBDA i : PairBinKept(bin_id + i))
    IN  << <<"pair", <<Ord[ids[1]], bin_id + CharA, Ord[ids[2]]>> >> >>
        \o [n \in DOMAIN kept |->
               <<"pairfuzz", <<Ord[ids[1]], bin_id + CharA + kept[n], Ord[ids[2]]>> >>]

\* lines 113-131
PairLookups(of, f) ==
    LET n == Len(of)
    IN  Flatten([a \in 1 .. (n - 1) |->
            Flatten([k \in 1 .. (n - a) |-> PairLookupsOf(of, a, a + k, f)])])

\* the sort key without the tag
DistanceLessBinOnly(d, e) == d.bin < e.bin

\* line 147: key=lambda d: (d['bin'], ord(d['id']))
DistanceLess(d, e) ==
    d.bin < e.bin \/ (d.bin = e.bin /\ Ord[d.id] < Ord[e.id])

\* line 177: key=lambda d: (d['bin'], ord(d['id']))
FDistanceLess(d, e) ==
    d.bin < e.bin \/ (d.bin = e.bin /\ Ord[d.id] < Ord[e.id])

\* lines 137-147
Distances(of, a, b, c) ==
    LET dist_matrix == calculate_distance_matrix(of)
        ds == << [id |-> Tag(of[c]), bin |-> bin_distance(dist_matrix[a][b], BINS)],
                 [id |-> Tag(of[b]), bin |-> bin_distance(dist_matrix[a][c], BINS)],
                 [id |-> Tag(of[a]), bin |-> bin_distance(dist_matrix[b][c], BINS)] >>
        rank == [i \in 1 .. 3 |->
                    Cardinality({j \in 1 .. 3 :
                        \/ DistanceLess(ds[j], ds[i])
                        \/ (~DistanceLess(ds[i], ds[j]) /\ j < i)}) + 1]
    IN  [r \in 1 .. 3 |-> ds[CHOOSE i \in 1 .. 3 : rank[i] = r]]

\* lines 149-152 and 179-182
TripleKey(ds) ==
    <<Ord[ds[1].id], Ord[ds[2].id], Ord[ds[3].id],
      ds[1].bin + CharA, ds[2].bin + CharA, ds[3].bin + CharA>>

\* the triple bound written like the pair bound
TripleBinsKeptLoose(bin_i, bin_j, bin_k) ==
    ~(\/ nr_bins < bin_i \/ bin_i < 0
      \/ nr_bins < bin_j \/ bin_j < 0
      \/ nr_bins < bin_k \/ bin_k < 0)

\* lines 161-163, negated: the perturbed triple is looked up
TripleBinsKept(bin_i, bin_j, bin_k) ==
    ~(\/ nr_bins <= bin_i \/ bin_i < 0
      \/ nr_bins <= bin_j \/ bin_j < 0
      \/ nr_bins <= bin_k \/ bin_k < 0)

\* lines 166-177
FDistances(distances, o) ==
    LET fs == << [id |-> distances[1].id, bin |-> distances[1].bin + o[1]],
                 [id |-> distances[2].id, bin |-> distances[2].bin + o[2]],
                 [id |-> distances[3].id, bin |-> distances[3].bin + o[3]] >>
        rank == [i \in 1 .. 3 |->
                    Cardinality({j \in 1 .. 3 :
                        \/ FDistanceLess(fs[j], fs[i])
                        \/ (~FDistanceLess(fs[i], fs[j]) /\ j < i)}) + 1]
    IN  [r \in 1 .. 3 |-> fs[CHOOSE i \in 1 .. 3 : rank[i] = r]]

\* the unperturbed key left to the offsets loop
NoBaseTripleLookups(distances) == <<>>

\* lines 153-154: the lookup of the unperturbed triple key
BaseTripleLookups(distances) == << <<"triple", TripleKey(distances)>> >>

\* lines 156-184, for the triple a < b < c
FuzzTripleLookups(distances, offs) ==
    LET kept == SelectSeq(offs, LAMBDA o :
                    TripleBinsKept(distances[1].bin + o[1],
                                   distances[2].bin + o[2],
                                   distances[3].bin + o[3]))
    IN  [n \in DOMAIN kept |-> <<"triplefuzz", TripleKey(FDistances(distances, kept[n]))>>]

\* lines 137-184, for the triple a < b < c
TripleLookups(of, a, b, c, offs) ==
    LET distances == Distances(of, a, b, c)
    IN  BaseTripleLookups(distances) \o FuzzTripleLookups(distances, offs)

\* the loop headers of lines 134-136: the triple after <<a, b, c>>, or <<>>
NextTriple(t, n) ==
    IF t[3] < n THEN <<t[1], t[2], t[3] + 1>>
    ELSE IF t[2] < n - 1 THEN <<t[1], t[2] + 1, t[2] + 2>>
    ELSE IF t[1] < n - 2 THEN <<t[1] + 1, t[1] + 2, t[1] + 3>>
    ELSE <<>>

\* BIT_INFO[bit_info] raises KeyError: the index of the first lookup of ls
\* that does, 0 when none does
FirstMissing(ls) ==
    IF \E n \in DOMAIN ls : ~KeyPresent(ls[n][2])
    THEN CHOOSE n \in DOMAIN ls :
            /\ ~KeyPresent(ls[n][2])
            /\ \A m \in 1 .. (n - 1) : KeyPresent(ls[m][2])
    ELSE 0

-----------------------------------------------------------------------------
(* The state machine: one call of from_pharmacophore at a time *)

AllTags == {FEATURE2BIT[k] : k \in DOMAIN FEATURE2BIT}

\* The dictionaries tried: generated for one more bin letter than BINS has
\* thresholds (every key the encoder can build is present), for one letter
\* fewer than BINS has thresholds, and one that lacks the tag R.
BitInfos ==
    { [bins |-> nr_bins + 1, tags |-> AllTags],
      [bins |-> nr_bins - 1, tags |-> AllTags],
      [bins |-> nr_bins + 1, tags |-> AllTags \ {"R"}] }

Pharmacophores == UNION {[1 .. n -> FeaturePool] : n \in 0 .. MaxFeatures}

Init ==
    /\ features \in Pharmacophores
    /\ subs \in BOOLEAN
    /\ fuzzy_factor \in FuzzyFactors
    /\ bit_info \in BitInfos
    /\ pc = "start"
    /\ ordered_features = <<>>
    /\ bits = {}
    /\ offsets = <<>>
    /\ abc = <<>>
    /\ looked = {}
    /\ result = NoResult
    /\ prev = NoPrev

nr_features == Len(ordered_features)

\* lookups written BIT_INFO.get(...): an absent key is skipped
LookupSkipping(ls, next) ==
    /\ bits' = bits \cup {BitIndex(ls[n][2]) : n \in {m \in DOMAIN ls : KeyPresent(ls[m][2])}}
    /\ looked' = looked \cup SeqToSet(ls)
    /\ pc' = next
    /\ result' = result

\* The lookups ls are made in order: every bit index is added to bits until
\* one raises KeyError, which leaves the function; otherwise go on at `next`.
Lookup(ls, next) ==
    \E made \in {ls} :
        LET m == FirstMissing(made)
        IN  IF m = 0
            THEN /\ bits' = bits \cup {BitIndex(made[n][2]) : n \in DOMAIN made}
                 /\ looked' = looked \cup SeqToSet(made)
                 /\ pc' = next
                 /\ result' = result
            ELSE /\ bits' = bits \cup {BitIndex(made[n][2]) : n \in 1 .. (m - 1)}
                 /\ looked' = looked \cup {made[n] : n \in 1 .. m}
                 /\ pc' = "KeyError"
                 /\ result' = [status |-> "KeyError"]

\* lines 95-101
Sort ==
    /\ pc = "start"
    /\ ordered_features' = SortFeatures(features)
    /\ bits' = {}
    /\ pc' = "singles"
    /\ UNCHANGED <<features, subs, fuzzy_factor, bit_info, offsets, abc, looked,
                   result, prev>>

\* lines 103-107
Singles ==
    /\ pc = "singles"
    /\ Lookup(IF subs THEN SingleLookups(ordered_features) ELSE <<>>, "pairs")
    /\ UNCHANGED <<features, subs, fuzzy_factor, bit_info, ordered_features,
                   offsets, abc, prev>>

\* lines 109-131
Pairs ==
    /\ pc = "pairs"
    /\ Lookup(IF subs THEN PairLookups(ordered_features, fuzzy_factor) ELSE <<>>,
              "offsets")
    /\ UNCHANGED <<features, subs, fuzzy_factor, bit_info, ordered_features,
                   offsets, abc, prev>>

\* line 133, and the loop headers of lines 134-136 on entry
Offsets ==
    /\ pc = "offsets"
    /\ IF fuzzy_offsets_raises(fuzzy_factor)
       THEN /\ pc' = "ValueError"
            /\ result' = [status |-> "ValueError"]
            /\ UNCHANGED <<offsets, abc>>
       ELSE /\ offsets' = fuzzy_offsets(fuzzy_factor)
            /\ IF nr_features >= 3
               THEN pc' = "triples" /\ abc' = <<1, 2, 3>>
               ELSE pc' = "return" /\ abc' = <<>>
            /\ UNCHANGED result
    /\ UNCHANGED <<features, subs, fuzzy_factor, bit_info, ordered_features,
                   bits, looked, prev>>

\* lines 137-184 for the current a, b, c, and the loop headers after it
Triple ==
    /\ pc = "triples"
    /\ LET nxt == NextTriple(abc, nr_features)
       IN  /\ Lookup(TripleLookups(ordered_features, abc[1], abc[2], abc[3], offsets),
                     IF nxt = <<>> THEN "return" ELSE "triples")
           /\ abc' = IF pc' = "KeyError" THEN abc ELSE nxt
    /\ UNCHANGED <<features, subs, fuzzy_factor, bit_info, ordered_features,
                   offsets, prev>>

\* line 186
Return ==
    /\ pc = "return"
    /\ result' = [status |-> "ok", bits |-> bits]
    /\ pc' = "done"
    /\ UNCHANGED <<features, subs, fuzzy_factor, bit_info, ordered_features,
                   bits, offsets, abc, looked, prev>>

-----------------------------------------------------------------------------
(* The caller: after a call has ended it calls again with related arguments *)

Ended == pc \in {"done", "KeyError", "ValueError"}

CallAgain ==
    /\ pc' = "start"
    /\ ordered_features' = <<>>
    /\ bits' = {}
    /\ offsets' = <<>>
    /\ abc' = <<>>
    /\ looked' = {}
    /\ result' = NoResult

\* the same pharmacophore with two features of its collection exchanged
CallPermuted ==
    /\ Ended
    /\ prev.rel \in {"none", "permuted"}
    /\ \E i, j \in DOMAIN features :
          /\ i < j
          /\ features' = [features EXCEPT ![i] = features[j], ![j] = features[i]]
    /\ prev' = IF prev = NoPrev THEN [rel |-> "permuted", result |-> result] ELSE prev
    /\ CallAgain
    /\ UNCHANGED <<subs, fuzzy_factor, bit_info>>

\* the same pharmacophore with fuzzy_factor + 1, after a call with fuzzy_factor >= 0
CallFuzzier ==
    /\ pc = "done"
    /\ prev = NoPrev
    /\ fuzzy_factor >= 0
    /\ fuzzy_factor + 1 \in FuzzyFactors
    /\ fuzzy_factor' = fuzzy_factor + 1
    /\ prev' = [rel |-> "fuzzier", result |-> result]
    /\ CallAgain
    /\ UNCHANGED <<features, subs, bit_info>>

\* the same pharmacophore with subs=True, after a call with subs=False
CallWithSubs ==
    /\ pc = "done"
    /\ prev = NoPrev
    /\ ~subs
    /\ subs' = TRUE
    /\ prev' = [rel |-> "subs", result |-> result]
    /\ CallAgain
    /\ UNCHANGED <<features, fuzzy_factor, bit_info>>

Next ==
    \/ Sort
    \/ Singles
    \/ Pairs
    \/ Offsets
    \/ Triple
    \/ Return
    \/ CallPermuted
    \/ CallFuzzier
    \/ CallWithSubs

Spec == Init /\ [][Next]_vars

-----------------------------------------------------------------------------
(* Properties *)

\* line 133 has been executed without raising in the current call
OffsetsListed ==
    \/ pc \in {"triples", "return", "done"}
    \/ pc = "KeyError" /\ \E l \in looked : l[1] \in {"triple", "triplefuzz"}

\* C2: for fuzzy_factor f >= 0 the offsets are the (2f+1)^3 triples of
\* {-f..f}^3, each once, in lexicographic order with the first axis slowest:
\* the n-th (from 0) is (n div w^2 - f, (n div w) mod w - f, n mod w - f)
\* with w = 2f+1; for f = 0 the single offset (0,0,0), for f = 1, 27 offsets.
C2_CubeOffsets ==
    (OffsetsListed /\ fuzzy_factor >= 0) =>
        LET f == fuzzy_factor
            w == 2 * f + 1
        IN  /\ Len(offsets) = w * w * w
            /\ \A n \in 0 .. (w * w * w - 1) :
                  offsets[n + 1] = <<(n \div (w * w)) - f, ((n \div w) % w) - f, (n % w) - f>>
            /\ SeqToSet(offsets) = ((0 - f) .. f) \X ((0 - f) .. f) \X ((0 - f) .. f)
            /\ Cardinality(SeqToSet(offsets)) = Len(offsets)
            /\ (f = 0 => offsets = << <<0, 0, 0>> >>)
            /\ (f = 1 => Len(offsets) = 27)

C2_Witness ==
    /\ pc = "done"
    /\ fuzzy_factor = 1
    /\ Len(offsets) = 27
    /\ offsets[1] = <<-1, -1, -1>>
    /\ offsets[14] = <<0, 0, 0>>

\* C3: for fuzzy_factor -1 the offsets are (1,2,1),(1,1,-1),(1,-1,-1),
\* (1,0,-1),(0,-1,-1),(-1,-1,-1),(1,2,0) in that order, and for -2 they are
\* (0,0,0),(-1,0,0),(1,0,0),(0,-1,0),(0,1,0),(0,0,-1),(0,0,1) in that order.
C3_SpecialOffsets ==
    /\ (OffsetsListed /\ fuzzy_factor = -1) =>
          /\ Len(offsets) = 7
          /\ offsets[1] = <<1, 2, 1>>
          /\ offsets[2] = <<1, 1, -1>>
          /\ offsets[3] = <<1, -1, -1>>
          /\ offsets[4] = <<1, 0, -1>>
          /\ offsets[5] = <<0, -1, -1>>
          /\ offsets[6] = <<-1, -1, -1>>
          /\ offsets[7] = <<1, 2, 0>>
    /\ (OffsetsListed /\ fuzzy_factor = -2) =>
          /\ Len(offsets) = 7
          /\ offsets[1] = <<0, 0, 0>>
          /\ offsets[2] = <<-1, 0, 0>>
          /\ offsets[3] = <<1, 0, 0>>
          /\ offsets[4] = <<0, -1, 0>>
          /\ offsets[5] = <<0, 1, 0>>
          /\ offsets[6] = <<0, 0, -1>>
          /\ offsets[7] = <<0, 0, 1>>

C3_Witness ==
    /\ pc = "triples"
    /\ fuzzy_factor = -1
    /\ Len(offsets) = 7

\* C4: with fuzzy_factor < -2 no offset is ever listed and the call never
\* returns a fingerprint; it ends with ValueError whenever every key looked
\* up before line 133 was present (also with fewer than 3 features), and
\* with KeyError otherwise.
C4_InvalidFuzzyFactor ==
    fuzzy_factor < -2 =>
        /\ offsets = <<>>
        /\ ~OffsetsListed
        /\ pc # "return"
        /\ result \in {NoResult, [status |-> "ValueError"], [status |-> "KeyError"]}
        /\ (Ended /\ \A l \in looked : KeyPresent(l[2])) =>
              (pc = "ValueError" /\ result = [status |-> "ValueError"])
        /\ pc = "ValueError" => \A l \in looked : KeyPresent(l[2])

C4_Witness ==
    /\ pc = "ValueError"
    /\ fuzzy_factor < -2
    /\ Len(features) < 3
    /\ subs
    /\ looked # {}

\* --- what the claims say, stated on the caller's pharmacophore ---

\* the smallest 0-based index i with d < bins[i], or len(bins)
ExpectedBin(d) ==
    IF \E i \in DOMAIN BINS : d < BINS[i]
    THEN (CHOOSE i \in DOMAIN BINS : d < BINS[i] /\ \A j \in 1 .. (i - 1) : BINS[j] <= d) - 1
    ELSE Len(BINS)

BinBetween(x, y) == ExpectedBin(Distance(features[x], features[y]))

TagOrd(x) == Ord[FEATURE2BIT[features[x].kind]]

ObsLeq(d, e) == d.bin < e.bin \/ (d.bin = e.bin /\ d.tag <= e.tag)

Perm3 == {p \in [1 .. 3 -> 1 .. 3] : {p[1], p[2], p[3]} = 1 .. 3}

\* three (tag, bin) observations in ascending (bin, tag) order
Ascending(o) ==
    LET p == CHOOSE q \in Perm3 : ObsLeq(o[q[1]], o[q[2]]) /\ ObsLeq(o[q[2]], o[q[3]])
    IN  <<o[p[1]], o[p[2]], o[p[3]]>>

KeyOfObs(o) ==
    <<o[1].tag, o[2].tag, o[3].tag, o[1].bin + 97, o[2].bin + 97, o[3].bin + 97>>

\* each feature's tag with the bin of the distance between the other two
ObsOf(x, y, z) ==
    Ascending(<< [tag |-> TagOrd(x), bin |-> BinBetween(y, z)],
                 [tag |-> TagOrd(y), bin |-> BinBetween(x, z)],
                 [tag |-> TagOrd(z), bin |-> BinBetween(x, y)] >>)

Perturbed(o, off) ==
    << [tag |-> o[1].tag, bin |-> o[1].bin + off[1]],
       [tag |-> o[2].tag, bin |-> o[2].bin + off[2]],
       [tag |-> o[3].tag, bin |-> o[3].bin + off[3]] >>

IndexTriples ==
    {t \in (DOMAIN features) \X (DOMAIN features) \X (DOMAIN features) :
        t[1] < t[2] /\ t[2] < t[3]}

IndexPairs == {t \in (DOMAIN features) \X (DOMAIN features) : t[1] < t[2]}

KeysAt(place) == {l[2] : l \in {m \in looked : m[1] = place}}

AllPresent == \A l \in looked : KeyPresent(l[2])

\* C1: a call on the same pharmacophore with its feature collection
\* permuted (at least 3 features, a supported fuzzy_factor, either subs)
\* ends exactly as the call on the original order did: the same fingerprint.
C1_PermutationInvariant ==
    (prev.rel = "permuted" /\ Ended /\ Len(features) >= 3 /\ fuzzy_factor >= -2) =>
        result = prev.result

C1_Witness ==
    /\ prev.rel = "permuted"
    /\ pc = "done"
    /\ Len(features) >= 3
    /\ subs
    /\ fuzzy_factor = 1
    /\ features # ordered_features
    /\ \E x, y \in DOMAIN features : x # y /\ features[x].kind = features[y].kind
    /\ \E t \in IndexTriples : \E n \in 1 .. 2 :
          ObsOf(t[1], t[2], t[3])[n].bin = ObsOf(t[1], t[2], t[3])[n + 1].bin
    /\ Cardinality(result.bits) > 3

\* C5: a lookup of an absent key is never passed over: it ends the call with
\* KeyError and no fingerprint; a call that returns has looked up only
\* present keys and returns exactly the bits of all the keys it looked up.
C5_MissingKeyAborts ==
    /\ (\E l \in looked : ~KeyPresent(l[2])) => (pc = "KeyError" /\ result = [status |-> "KeyError"])
    /\ pc = "KeyError" => (result = [status |-> "KeyError"] /\ ~AllPresent)
    /\ result.status = "ok" =>
          (AllPresent /\ result.bits = {BitIndex(l[2]) : l \in looked})

C5_Witness ==
    /\ pc = "KeyError"
    /\ bits # {}
    /\ \E l \in looked : l[1] = "triplefuzz" /\ ~KeyPresent(l[2])

\* C6: with fewer than 3 features, subs=False and a supported fuzzy_factor
\* the call returns the empty fingerprint; with exactly 1 feature and
\* subs=True a returned fingerprint has exactly 1 bit, that of the feature's tag.
C6_FewFeatures ==
    /\ (Ended /\ Len(features) < 3 /\ ~subs /\ fuzzy_factor >= -2) =>
          result = [status |-> "ok", bits |-> {}]
    /\ (result.status = "ok" /\ Len(features) = 1 /\ subs) =>
          /\ result.bits = {BitIndex(<<TagOrd(1)>>)}
          /\ Cardinality(result.bits) = 1

C6_Witness ==
    /\ pc = "done"
    /\ Len(features) = 1
    /\ subs
    /\ Cardinality(result.bits) = 1

ExpectedFuzzKeys(x, y, z) ==
    LET base == ObsOf(x, y, z)
    IN  {KeyOfObs(Ascending(Perturbed(base, off))) :
            off \in {o \in SeqToSet(offsets) :
                        \A n \in 1 .. 3 : base[n].bin + o[n] \in 0 .. (Len(BINS) - 1)}}

\* C8: every key looked up by triple fuzzing has its three bins in
\* [0, len(BINS)) and its bin letters in non-decreasing order, and once the
\* triple loop is over these keys are exactly those got by adding each
\* offset element-wise to the sorted base observations, dropping the
\* combination when a bin leaves [0, len(BINS)), and sorting again.
C8_TripleFuzz ==
    /\ \A k \in KeysAt("triplefuzz") :
          /\ \A n \in 4 .. 6 : k[n] - 97 \in 0 .. (Len(BINS) - 1)
          /\ k[4] <= k[5] /\ k[5] <= k[6]
    /\ pc \in {"return", "done"} =>
          KeysAt("triplefuzz") = UNION {ExpectedFuzzKeys(t[1], t[2], t[3]) : t \in IndexTriples}

C8_Witness ==
    /\ pc = "done"
    /\ \E k \in KeysAt("triplefuzz") : k[6] - 97 = Len(BINS) - 1
    /\ \E k \in KeysAt("triplefuzz") : k[4] = 97
    /\ \E t \in IndexTriples : ObsOf(t[1], t[2], t[3])[3].bin = Len(BINS)
    /\ \E t \in IndexTriples : \E o \in SeqToSet(offsets) :
          Ascending(Perturbed(ObsOf(t[1], t[2], t[3]), o)) # Perturbed(ObsOf(t[1], t[2], t[3]), o)

\* the pair fuzz radius
ExpectedRadius == IF fuzzy_factor < 0 THEN 1 ELSE fuzzy_factor

Min(m, n) == IF m <= n THEN m ELSE n

Max(m, n) == IF m <= n THEN n ELSE m

\* the keys pair fuzzing looks up for the features x, y
ExpectedPairKeys(x, y) ==
    {<<Min(TagOrd(x), TagOrd(y)), 97 + BinBetween(x, y) + i, Max(TagOrd(x), TagOrd(y))>> :
        i \in {j \in (0 - ExpectedRadius) .. ExpectedRadius :
                  0 <= BinBetween(x, y) + j /\ BinBetween(x, y) + j <= Len(BINS)}}

\* the pair loop has run to its end in the current call
PairsDone ==
    /\ subs
    /\ \/ pc \in {"offsets", "triples", "return", "done", "ValueError"}
       \/ pc = "KeyError" /\ \E l \in looked : l[1] \in {"triple", "triplefuzz"}

\* C9: with subs=True the pair loop looks up, for each pair of features and
\* each i in [-radius, radius] (radius 1 when fuzzy_factor < 0, fuzzy_factor
\* otherwise), the key tag_a ++ chr(97 + bin + i) ++ tag_b exactly when
\* 0 <= bin + i <= len(BINS), with tag_a <= tag_b the tags in tag order.
C9_PairFuzz ==
    /\ KeysAt("pairfuzz") \subseteq UNION {ExpectedPairKeys(t[1], t[2]) : t \in IndexPairs}
    /\ PairsDone =>
          KeysAt("pairfuzz") = UNION {ExpectedPairKeys(t[1], t[2]) : t \in IndexPairs}

C9_Witness ==
    /\ pc = "done"
    /\ subs
    /\ fuzzy_factor = -1
    /\ \E k \in KeysAt("pairfuzz") : k[2] = 97 + Len(BINS)
    /\ \E t \in IndexPairs : BinBetween(t[1], t[2]) = 0
    /\ features # ordered_features

\* C10: when both calls return, the fingerprint for fuzzy_factor f >= 0 is
\* a subset of the one for f + 1, and the fingerprint for subs=False is a
\* subset of the one for subs=True; and a returned fingerprint holds the bit
\* of the unperturbed key of every triple, whatever the fuzzy_factor.
C10_Monotone ==
    result.status = "ok" =>
        /\ prev.rel \in {"fuzzier", "subs"} => prev.result.bits \subseteq result.bits
        /\ \A t \in IndexTriples : BitIndex(KeyOfObs(ObsOf(t[1], t[2], t[3]))) \in result.bits

C10_Witness ==
    /\ pc = "done"
    /\ prev.rel = "fuzzier"
    /\ Len(features) >= 3
    /\ prev.result.bits # result.bits
    /\ prev.result.bits # {}

====
